---- MODULE Spec2Model ----
(***************************************************************************)
(* Model of drivers/base/power/main.c: the device power-management core.   *)
(*                                                                         *)
(* One controlling task runs the public operations dpm_suspend_start and   *)
(* dpm_resume_end; each is a sequence of phases (prepare, suspend, resume, *)
(* complete) that walk dpm_list.  The per-device bodies __device_suspend   *)
(* and device_resume run either inline on the controller or on a task of   *)
(* the async pool.  Callbacks of drivers are opaque: their result is an    *)
(* input chosen at every invocation, and a suspend callback may also never *)
(* return.                                                                 *)
(***************************************************************************)
EXTENDS Integers, Sequences, FiniteSets, TLC

(* ------------------------------ bounds --------------------------------- *)

\* Number of devices known to the driver core.
NDev == 3

\* The count of the prepare callbacks of one device stops at this value.
MaxPrep == 2

Dev == 1..NDev

(* --------------------------- program constants ------------------------- *)

\* enum dpm_state, in the numeric order main.c compares the values in.
DPM_ON == 1
DPM_PREPARING == 2
DPM_RESUMING == 3
DPM_SUSPENDING == 4
DPM_OFF == 5
DPM_OFF_IRQ == 6

\* errno values (returned negated).
EAGAIN == 11
EBUSY == 16

\* pm_message_t events accepted by the two public operations.
SleepMsgs == {"SUSPEND"}
WakeMsgs == {"RESUME"}

\* The error a failing callback of device d reports: an
\* arbitrary non-zero code, distinct per device so that reports can be told
\* apart.
DevErr(d) == 0 - (100 + d)

(* ------------------------------- state --------------------------------- *)

VARIABLES
    parent,             \* dev->parent (0: none), fixed by the driver core
    power_async_suspend, \* dev->power.async_suspend, set by the driver
    pm_async_enabled,   \* global switch (sysfs)
    pm_trace,           \* pm_trace_is_enabled()
    dpm_list,           \* the list of active devices, head first
    status,             \* dev->power.status
    completion,         \* dev->power.completion is done
    transition_started,
    pm_transition,
    async_error,
    mtx,                \* holder of dpm_list_mtx: "none" or "ctl"
    pc,                 \* position of the controlling task
    state,              \* argument of the running public operation
    list,               \* the local list of the running phase
    idx,                \* cursor of list_for_each_entry in dpm_resume
    dev,                \* the device the controller is handling (0: none)
    error,              \* the local error of the running phase
    body,               \* per device: the running __device_suspend/device_resume
    timer,              \* per device: the watchdog timer is pending
    fatal,              \* BUG() was executed
    wd_fired,           \* number of times dpm_drv_timeout ran
    last,               \* the public operation called last
    prev,               \* for a dpm_resume_end: the operation called before it
    off0,               \* the devices dpm_resume found suspended when called
    ret,                \* what the last dpm_suspend_start returned (0 until then)
    order0,             \* dpm_list when the running public operation was called
    cbfail,             \* a callback failed since dpm_suspend_start was called
    irqs_suspended,     \* suspend_device_irqs was called, resume_device_irqs not yet
    prep,               \* what the last dpm_prepare did, until dpm_suspend starts
    noirq,              \* what the last dpm_suspend_noirq/dpm_resume_noirq did
    cmp,                \* what the last dpm_complete did
    tiers               \* one device seen by tier: its class, type and bus
                        \* and the callbacks its last body invoked

cfgvars == <<parent, power_async_suspend, pm_async_enabled, pm_trace, tiers>>
devvars == <<dpm_list, status, completion, transition_started, pm_transition,
             async_error, mtx>>
ctlvars == <<pc, state, list, idx, dev, error>>
runvars == <<body, timer, fatal, wd_fired>>
obsvars == <<last, prev, off0, ret, order0, cbfail>>
nivars == <<irqs_suspended, prep, noirq, cmp>>
vars == <<cfgvars, devvars, ctlvars, runvars, obsvars, nivars>>

(* ------------------------------ list helpers --------------------------- *)

Last(s) == s[Len(s)]

InSeq(s, d) == \E i \in 1..Len(s) : s[i] = d

PosIn(s, d) == CHOOSE i \in 1..Len(s) : s[i] = d

\* list_del_init
ListDel(s, d) == SelectSeq(s, LAMBDA x : x # d)

\* list_splice(list, head): the entries of list go to the front
SpliceHead(l, s) == l \o s

\* list_splice(list, head->prev): the entries of list go behind the last one
SpliceTail(l, s) == s \o l

\* The device is on dpm_list or on the local list of the running phase.
Registered(d) == InSeq(dpm_list, d) \/ InSeq(list, d)

\* device_for_each_child: the children of d in the order they were created
Children(d) ==
    SelectSeq([i \in 1..NDev |-> i], LAMBDA c : parent[c] = d /\ Registered(c))

\* list_move_tail(a, b): a is taken out and put in right before b
MoveBefore(s, a, b) ==
    LET r == ListDel(s, a)
        i == PosIn(r, b)
    IN  SubSeq(r, 1, i - 1) \o <<a>> \o SubSeq(r, i, Len(r))

\* list_move(a, b): a is taken out and put in right behind b
MoveAfter(s, a, b) ==
    LET r == ListDel(s, a)
        i == PosIn(r, b)
    IN  SubSeq(r, 1, i) \o <<a>> \o SubSeq(r, i + 1, Len(r))

\* No body runs for a device.  ncb counts the times its callbacks were entered.
NoBody == [pc |-> "none", async |-> FALSE, error |-> 0, wi |-> 0, ncb |-> 0]

NewBody(start, async) ==
    [pc |-> start, async |-> async, error |-> 0, wi |-> 1, ncb |-> 0]

\* No dpm_prepare ran: n counts the times device_prepare or the wake-up test
\* ran for a device, fail is the device that ended the loop, wake the device
\* that requested a wake-up.
NoPrep == [n |-> [d \in Dev |-> 0], fail |-> 0, wake |-> 0]

\* No noirq operation ran: op is the operation called last, fail the device
\* whose suspend_noirq callback failed, ret what dpm_suspend_noirq returned,
\* late0 the devices dpm_resume_noirq found above DPM_OFF, early the times the
\* resume_noirq callbacks of a device were entered, efail the devices whose
\* resume_noirq callbacks failed, off and on the calls of
\* suspend_device_irqs and resume_device_irqs.
NoNoirq ==
    [op |-> "none", fail |-> 0, ret |-> 0, late0 |-> {},
     early |-> [d \in Dev |-> 0], efail |-> {}, off |-> 0, on |-> 0]

\* The tiers of a device in the order __device_suspend walks them.
TierNames == <<"class", "type", "bus">>

\* dev->class, dev->type or dev->bus: present when the pointer is set, pm when
\* its ->pm is set, cb when the callback of the phase in ->pm is set, legacy
\* when the legacy callback of the phase is set.
TierDesc ==
    {x \in [present : BOOLEAN, pm : BOOLEAN, cb : BOOLEAN, legacy : BOOLEAN] :
        /\ (~x.present => ~x.pm /\ ~x.legacy)
        /\ (~x.pm => ~x.cb)}

NoTier == [present |-> FALSE, pm |-> FALSE, cb |-> FALSE, legacy |-> FALSE]

\* No body ran for the device: drv its tiers, op the body that ran last, res
\* what each callback returns when invoked, calls the callbacks invoked in
\* order, error and status what the body left.
NoTiers ==
    [drv |-> [t \in {"class", "type", "bus"} |-> NoTier], op |-> "none",
     res |-> [t \in {"class", "type", "bus"} |-> 0], calls |-> <<>>,
     error |-> 0, status |-> DPM_SUSPENDING]

\* No dpm_complete ran: todo the devices dpm_complete found not at DPM_ON,
\* seq the devices whose device_complete and pm_runtime_put_sync returned, in
\* that order.
NoCmp == [todo |-> {}, seq |-> <<>>]

\* async_synchronize_full returns: no task of the async pool is left.
AsyncIdle ==
    \A d \in Dev : body[d].async => body[d].pc \in {"none", "s_done", "r_done"}

(* ------------------------------- Init ---------------------------------- *)

\* device_pm_init for every device, each added by device_pm_add in discovery
\* order (parents are discovered before their children).
InitDevices ==
    /\ parent \in {p \in [Dev -> 0..NDev] : \A d \in Dev : p[d] < d}
    /\ power_async_suspend \in [Dev -> BOOLEAN]
    /\ pm_async_enabled \in BOOLEAN
    /\ pm_trace \in BOOLEAN
    /\ dpm_list = [i \in 1..NDev |-> i]
    /\ status = [d \in Dev |-> DPM_ON]
    /\ completion = [d \in Dev |-> TRUE]
    /\ transition_started = FALSE
    /\ pm_transition = "ON"
    /\ async_error = 0
    /\ mtx = "none"
    /\ pc = "idle"
    /\ state = "ON"
    /\ list = <<>>
    /\ idx = 0
    /\ dev = 0
    /\ error = 0
    /\ body = [d \in Dev |-> NoBody]
    /\ timer = [d \in Dev |-> FALSE]
    /\ fatal = FALSE
    /\ wd_fired = 0
    /\ last = "none"
    /\ prev = "none"
    /\ off0 = {}
    /\ ret = 0
    /\ order0 = <<>>
    /\ cbfail = FALSE
    /\ irqs_suspended = FALSE
    /\ prep = NoPrep
    /\ noirq = NoNoirq
    /\ cmp = NoCmp

\* The state after construction; the tiers of the devices are not looked at
\* (their callbacks are one step with one result).
Init ==
    /\ InitDevices
    /\ tiers = NoTiers

(* ------------------------------ dpm_prepare ---------------------------- *)

\* dpm_suspend_start is called; dpm_prepare takes the lock and marks the
\* transition as started.
dpm_suspend_start(st) ==
    /\ pc = "idle" /\ ~fatal
    /\ last # "suspend_start"     \* never twice without a dpm_resume_end
    /\ pc' = "prepare_loop"
    /\ state' = st
    /\ list' = <<>>
    /\ error' = 0
    /\ dev' = 0
    /\ mtx' = "ctl"
    /\ transition_started' = TRUE
    /\ body' = [d \in Dev |-> NoBody]
    /\ order0' = dpm_list
    /\ last' = "suspend_start"
    /\ prev' = "none"
    /\ ret' = 0
    /\ cbfail' = FALSE
    /\ prep' = NoPrep
    /\ noirq' = NoNoirq
    /\ cmp' = NoCmp
    /\ UNCHANGED <<cfgvars, dpm_list, status, completion, pm_transition,
                   async_error, idx, timer, fatal, wd_fired, off0,
                   irqs_suspended>>

\* The head of dpm_list is marked DPM_PREPARING and the lock is dropped.
dpm_prepare_next ==
    /\ pc = "prepare_loop" /\ ~fatal
    /\ dpm_list # <<>>
    /\ dev' = Head(dpm_list)
    /\ status' = [status EXCEPT ![Head(dpm_list)] = DPM_PREPARING]
    /\ mtx' = "none"
    /\ pc' = "prepare_cb"
    /\ UNCHANGED <<nivars, cfgvars, dpm_list, completion, transition_started,
                   pm_transition, async_error, state, list, idx, error,
                   runvars, obsvars>>

\* Variant: a requested wake-up is not turned into an error.
PrepareError_nowake(wakeup, r) == r

\* What the loop body of dpm_prepare computes as error: -EBUSY when a wake-up
\* was requested, else the result r of device_prepare.
PrepareError(wakeup, r) == IF wakeup THEN 0 - EBUSY ELSE r

\* The rest of the loop body: the callbacks run, the lock is taken again and
\* the result decides: -EAGAIN skips the device, another error ends the loop.
dpm_prepare_cb(wakeup, r) ==
    /\ pc = "prepare_cb" /\ ~fatal
    /\ mtx' = "ctl"
    /\ LET e == PrepareError(wakeup, r) IN
       IF e # 0
       THEN /\ status' = [status EXCEPT ![dev] = DPM_ON]
            /\ UNCHANGED <<dpm_list, list>>
            /\ IF e = 0 - EAGAIN
               THEN error' = 0 /\ pc' = "prepare_loop"
               ELSE error' = e /\ pc' = "prepare_end"
       ELSE /\ status' = [status EXCEPT ![dev] = DPM_SUSPENDING]
            /\ IF InSeq(dpm_list, dev)
               THEN /\ dpm_list' = ListDel(dpm_list, dev)
                    /\ list' = Append(list, dev)
               ELSE UNCHANGED <<dpm_list, list>>
            /\ error' = 0
            /\ pc' = "prepare_loop"
    /\ cbfail' = (cbfail \/ PrepareError(wakeup, r) # 0)
    /\ prep' = [n |-> [prep.n EXCEPT ![dev] = IF @ < MaxPrep THEN @ + 1 ELSE @],
                fail |-> IF PrepareError(wakeup, r) \notin {0, 0 - EAGAIN}
                         THEN dev ELSE prep.fail,
                wake |-> IF wakeup THEN dev ELSE prep.wake]
    /\ UNCHANGED <<cmp, irqs_suspended, noirq, cfgvars, completion, transition_started, pm_transition,
                   async_error, state, idx, dev, runvars, last, prev, off0,
                   ret, order0>>

\* The loop is over: the prepared devices are spliced back in front and
\* dpm_prepare returns error to dpm_suspend_start.
dpm_prepare_end ==
    /\ ~fatal
    /\ \/ pc = "prepare_end"
       \/ pc = "prepare_loop" /\ dpm_list = <<>>
    /\ dpm_list' = SpliceHead(list, dpm_list)
    /\ list' = <<>>
    /\ mtx' = "none"
    /\ pc' = "prepared"
    /\ UNCHANGED <<nivars, cfgvars, status, completion, transition_started,
                   pm_transition, async_error, state, idx, dev, error,
                   runvars, obsvars>>

\* dpm_suspend_start returns the error of dpm_prepare without suspending.
dpm_suspend_start_fail ==
    /\ pc = "prepared" /\ ~fatal
    /\ error # 0
    /\ pc' = "idle"
    /\ ret' = error
    /\ dev' = 0
    /\ UNCHANGED <<nivars, cfgvars, devvars, state, list, idx, error, runvars, last,
                   prev, off0, order0, cbfail>>

(* ------------------------------ dpm_suspend ---------------------------- *)

\* Variant: the two conditions joined by "and".
DpmWaits_and(d, async) == async /\ (pm_async_enabled /\ power_async_suspend[d])

\* dpm_wait: a caller blocks on the completion of d when it runs async, or
\* when d itself may be handled asynchronously.
DpmWaits(d, async) == async \/ (pm_async_enabled /\ power_async_suspend[d])

\* The test of device_suspend that sends a device to the async pool.
SuspendGoesAsync(d) == pm_async_enabled /\ power_async_suspend[d]

\* Variant: DPM_OFF is written on the error path as well.
SuspendStatus_always(e, old) == DPM_OFF

\* The status __device_suspend leaves: DPM_OFF only when no callback failed.
SuspendStatus(e, old) == IF e = 0 THEN DPM_OFF ELSE old

\* Variant: the error of the async tasks is not folded in.
SuspendResult_own(err, aerr) == err

\* What dpm_suspend returns: its own error, else the one async tasks left.
SuspendResult(err, aerr) == IF err = 0 THEN aerr ELSE err

\* Variant: the loop walks from the head.
SuspendPick_head(l) == Head(l)

\* The entry the loop of dpm_suspend takes next: dpm_list.prev.
SuspendPick(l) == Last(l)

\* Variant: the result of dpm_prepare is not tested.
dpm_suspend_any ==
    /\ pc = "prepared" /\ ~fatal
    /\ mtx' = "ctl"
    /\ pm_transition' = state
    /\ async_error' = 0
    /\ list' = <<>>
    /\ pc' = "suspend_loop"
    /\ prep' = NoPrep
    /\ UNCHANGED <<cmp, irqs_suspended, noirq, cfgvars, dpm_list, status, completion,
                   transition_started, state, idx, dev, error, runvars, obsvars>>

\* dpm_prepare succeeded: dpm_suspend takes the lock and resets async_error.
dpm_suspend ==
    /\ pc = "prepared" /\ ~fatal
    /\ error = 0
    /\ mtx' = "ctl"
    /\ pm_transition' = state
    /\ async_error' = 0
    /\ list' = <<>>
    /\ pc' = "suspend_loop"
    /\ prep' = NoPrep
    /\ UNCHANGED <<cmp, irqs_suspended, noirq, cfgvars, dpm_list, status, completion, transition_started,
                   state, idx, dev, error, runvars, obsvars>>

\* The tail of dpm_list is taken, the lock dropped and device_suspend called:
\* the completion is re-armed and the body starts, on the pool or inline.
dpm_suspend_next ==
    /\ pc = "suspend_loop" /\ ~fatal
    /\ dpm_list # <<>>
    /\ LET d == SuspendPick(dpm_list) IN
       /\ dev' = d
       /\ mtx' = "none"
       /\ completion' = [completion EXCEPT ![d] = FALSE]
       /\ IF SuspendGoesAsync(d)
          THEN /\ body' = [body EXCEPT ![d] = NewBody("s_wait", TRUE)]
               /\ error' = 0
               /\ pc' = "suspend_ret"
          ELSE /\ body' = [body EXCEPT ![d] = NewBody("s_wait", FALSE)]
               /\ error' = error
               /\ pc' = "suspend_inline"
    /\ UNCHANGED <<nivars, cfgvars, dpm_list, status, transition_started,
                   pm_transition, async_error, state, list, idx, timer, fatal,
                   wd_fired, obsvars>>

\* Variant: the controller goes on while the inline body still runs.
dpm_suspend_inline_ret_nowait ==
    /\ pc = "suspend_inline" /\ ~fatal
    /\ error' = body[dev].error
    /\ pc' = "suspend_ret"
    /\ UNCHANGED <<nivars, cfgvars, devvars, state, list, idx, dev, runvars, obsvars>>

\* The inline __device_suspend returned to device_suspend.
dpm_suspend_inline_ret ==
    /\ pc = "suspend_inline" /\ ~fatal
    /\ body[dev].pc = "s_done"
    /\ error' = body[dev].error
    /\ pc' = "suspend_ret"
    /\ UNCHANGED <<nivars, cfgvars, devvars, state, list, idx, dev, runvars, obsvars>>

\* Back in the loop with the lock: an error ends the loop, else the device
\* goes to the local list and a latched async_error ends the loop.
dpm_suspend_ret ==
    /\ pc = "suspend_ret" /\ ~fatal
    /\ mtx' = "ctl"
    /\ IF error # 0
       THEN /\ pc' = "suspend_end"
            /\ UNCHANGED <<dpm_list, list>>
       ELSE /\ IF InSeq(dpm_list, dev)
               THEN /\ dpm_list' = ListDel(dpm_list, dev)
                    /\ list' = <<dev>> \o list
               ELSE UNCHANGED <<dpm_list, list>>
            /\ pc' = IF async_error # 0 THEN "suspend_end" ELSE "suspend_loop"
    /\ UNCHANGED <<nivars, cfgvars, status, completion, transition_started,
                   pm_transition, async_error, state, idx, dev, error,
                   runvars, obsvars>>

\* The loop is over: the handled devices are spliced back behind the rest.
dpm_suspend_end ==
    /\ ~fatal
    /\ \/ pc = "suspend_end"
       \/ pc = "suspend_loop" /\ dpm_list = <<>>
    /\ dpm_list' = SpliceTail(list, dpm_list)
    /\ list' = <<>>
    /\ mtx' = "none"
    /\ pc' = "suspend_sync"
    /\ UNCHANGED <<nivars, cfgvars, status, completion, transition_started,
                   pm_transition, async_error, state, idx, dev, error,
                   runvars, obsvars>>

\* Variant: dpm_suspend returns without async_synchronize_full.
dpm_suspend_sync_nobarrier ==
    /\ pc = "suspend_sync" /\ ~fatal
    /\ error' = SuspendResult(error, async_error)
    /\ ret' = SuspendResult(error, async_error)
    /\ pc' = "idle"
    /\ dev' = 0
    /\ UNCHANGED <<nivars, cfgvars, devvars, state, list, idx, runvars, last, prev,
                   off0, order0, cbfail>>

\* async_synchronize_full returned; dpm_suspend and dpm_suspend_start return.
dpm_suspend_sync ==
    /\ pc = "suspend_sync" /\ ~fatal
    /\ AsyncIdle
    /\ error' = SuspendResult(error, async_error)
    /\ ret' = SuspendResult(error, async_error)
    /\ pc' = "idle"
    /\ dev' = 0
    /\ UNCHANGED <<nivars, cfgvars, devvars, state, list, idx, runvars, last, prev,
                   off0, order0, cbfail>>

(* --------------------------- __device_suspend -------------------------- *)

\* dpm_wait_for_children: one child after the other.
device_suspend_wait(d) ==
    /\ body[d].pc = "s_wait" /\ ~fatal
    /\ body[d].wi <= Len(Children(d))
    /\ LET c == Children(d)[body[d].wi] IN
       DpmWaits(c, body[d].async) => completion[c]
    /\ body' = [body EXCEPT ![d].wi = @ + 1]
    /\ UNCHANGED <<nivars, cfgvars, devvars, ctlvars, timer, fatal, wd_fired, obsvars>>

\* The watchdog is armed and async_error is read: when it is set the
\* callbacks are skipped.
device_suspend_arm(d) ==
    /\ body[d].pc = "s_wait" /\ ~fatal
    /\ body[d].wi > Len(Children(d))
    /\ timer' = [timer EXCEPT ![d] = TRUE]
    /\ body' = IF async_error # 0
                THEN [body EXCEPT ![d].pc = "s_end"]
                ELSE [body EXCEPT ![d].pc = "s_cb", ![d].ncb = @ + 1]
    /\ UNCHANGED <<nivars, cfgvars, devvars, ctlvars, fatal, wd_fired, obsvars>>

\* The class, type and bus callbacks returned e; the status is written.
device_suspend_cb(d, e) ==
    /\ body[d].pc = "s_cb" /\ ~fatal
    /\ body' = [body EXCEPT ![d].pc = "s_end", ![d].error = e]
    /\ status' = [status EXCEPT ![d] = SuspendStatus(e, @)]
    /\ cbfail' = (cbfail \/ e # 0)
    /\ UNCHANGED <<nivars, cfgvars, dpm_list, completion, transition_started,
                   pm_transition, async_error, mtx, ctlvars, timer, fatal,
                   wd_fired, last, prev, off0, ret, order0>>

\* A callback of d never returns.
device_suspend_hang(d) ==
    /\ body[d].pc = "s_cb" /\ ~fatal
    /\ body' = [body EXCEPT ![d].pc = "s_hung"]
    /\ cbfail' = TRUE
    /\ UNCHANGED <<nivars, cfgvars, devvars, ctlvars, timer, fatal, wd_fired, last,
                   prev, off0, ret, order0>>

\* Variant: the watchdog is deleted only on the path of a successful callback.
device_suspend_end_leak(d) ==
    /\ body[d].pc = "s_end" /\ ~fatal
    /\ timer' = [timer EXCEPT ![d] = ~(body[d].error = 0 /\ body[d].ncb > 0)]
    /\ completion' = [completion EXCEPT ![d] = TRUE]
    /\ body' = [body EXCEPT ![d].pc = IF body[d].async THEN "s_report" ELSE "s_done"]
    /\ UNCHANGED <<nivars, cfgvars, dpm_list, status, transition_started,
                   pm_transition, async_error, mtx, ctlvars, fatal, wd_fired,
                   obsvars>>

\* End: the watchdog is deleted and the completion signalled.
device_suspend_end(d) ==
    /\ body[d].pc = "s_end" /\ ~fatal
    /\ timer' = [timer EXCEPT ![d] = FALSE]
    /\ completion' = [completion EXCEPT ![d] = TRUE]
    /\ body' = [body EXCEPT ![d].pc = IF body[d].async THEN "s_report" ELSE "s_done"]
    /\ UNCHANGED <<nivars, cfgvars, dpm_list, status, transition_started,
                   pm_transition, async_error, mtx, ctlvars, fatal, wd_fired,
                   obsvars>>

\* The async task after __device_suspend returned: an error is latched.
async_suspend(d) ==
    /\ body[d].pc = "s_report" /\ ~fatal
    /\ async_error' = IF body[d].error # 0 THEN body[d].error ELSE async_error
    /\ body' = [body EXCEPT ![d].pc = "s_done"]
    /\ UNCHANGED <<nivars, cfgvars, dpm_list, status, completion, transition_started,
                   pm_transition, mtx, ctlvars, timer, fatal, wd_fired, obsvars>>

\* Variant: the handler reports and returns.
dpm_drv_timeout_return(d) ==
    /\ timer[d] /\ ~fatal
    /\ body[d].pc = "s_hung"
    /\ wd_fired < 2
    /\ wd_fired' = wd_fired + 1
    /\ UNCHANGED <<nivars, cfgvars, devvars, ctlvars, body, timer, fatal, obsvars>>

\* The watchdog of d expires while its callback does not return: BUG().
dpm_drv_timeout(d) ==
    /\ timer[d] /\ ~fatal
    /\ body[d].pc = "s_hung"
    /\ fatal' = TRUE
    /\ wd_fired' = wd_fired + 1
    /\ UNCHANGED <<nivars, cfgvars, devvars, ctlvars, body, timer, obsvars>>

(* ------------------------------- dpm_resume ---------------------------- *)

\* is_async: the test of dpm_resume that sends a device to the async pool.
is_async(d) == power_async_suspend[d] /\ pm_async_enabled /\ ~pm_trace

\* Variant: every device passes the test.
NeedsResume_all(s) == s >= DPM_ON

\* The devices dpm_resume runs resume callbacks for.
NeedsResume(s) == s >= DPM_OFF

\* Variant: only a parent that already started to resume is waited for.
ParentInTransition_resuming(s) == s = DPM_RESUMING

\* The test of device_resume on the status of the parent.
ParentInTransition(s) == s >= DPM_OFF \/ s = DPM_RESUMING

\* Variant: only devices that were suspended are completed.
NeedsComplete_off(s) == s >= DPM_OFF

\* The devices dpm_complete runs completion callbacks for.
NeedsComplete(s) == s > DPM_ON

\* dpm_resume_end is called; dpm_resume takes the lock.
dpm_resume_end(st) ==
    /\ pc = "idle" /\ ~fatal
    /\ ~irqs_suspended           \* called after dpm_resume_noirq only
    /\ state' = st
    /\ pm_transition' = st
    /\ mtx' = "ctl"
    /\ list' = <<>>
    /\ idx' = 1
    /\ dev' = 0
    /\ error' = 0
    /\ pc' = IF dpm_list = <<>> THEN "resume_loop" ELSE "resume_scan"
    /\ body' = [d \in Dev |-> NoBody]
    /\ order0' = dpm_list
    /\ off0' = {d \in Dev : InSeq(dpm_list, d) /\ NeedsResume(status[d])}
    /\ last' = "resume_end"
    /\ prev' = last
    /\ prep' = IF last = "suspend_start" THEN prep ELSE NoPrep
    /\ noirq' = NoNoirq
    /\ cmp' = NoCmp
    /\ UNCHANGED <<irqs_suspended, cfgvars, dpm_list, status, completion, transition_started,
                   async_error, timer, fatal, wd_fired, ret, cbfail>>

\* One entry of the first walk: a suspended device gets its completion
\* re-armed and, when is_async, its async_resume scheduled.
dpm_resume_scan ==
    /\ pc = "resume_scan" /\ ~fatal
    /\ LET d == dpm_list[idx] IN
       IF NeedsResume(status[d])
       THEN /\ completion' = [completion EXCEPT ![d] = FALSE]
            /\ body' = IF is_async(d)
                       THEN [body EXCEPT ![d] = NewBody("r_start", TRUE)]
                       ELSE body
       ELSE UNCHANGED <<completion, body>>
    /\ idx' = idx + 1
    /\ pc' = IF idx = Len(dpm_list) THEN "resume_loop" ELSE "resume_scan"
    /\ UNCHANGED <<nivars, cfgvars, dpm_list, status, transition_started,
                   pm_transition, async_error, mtx, state, list, dev, error,
                   timer, fatal, wd_fired, obsvars>>

\* Variant: a device that was only prepared is not marked DPM_RESUMING.
dpm_resume_next_nomark ==
    /\ pc = "resume_loop" /\ ~fatal
    /\ dpm_list # <<>>
    /\ LET d == Head(dpm_list) IN
       /\ dev' = d
       /\ IF NeedsResume(status[d]) /\ ~is_async(d)
          THEN /\ mtx' = "none"
               /\ body' = [body EXCEPT ![d] = NewBody("r_start", FALSE)]
               /\ pc' = "resume_inline"
               /\ UNCHANGED <<status, dpm_list, list>>
          ELSE /\ dpm_list' = Tail(dpm_list)
               /\ list' = Append(list, d)
               /\ UNCHANGED <<status, mtx, body, pc>>
    /\ UNCHANGED <<nivars, cfgvars, completion, transition_started, pm_transition,
                   async_error, state, idx, error, timer, fatal, wd_fired,
                   obsvars>>

\* One entry of the second walk: the head is resumed inline, or marked
\* DPM_RESUMING when it was only prepared, and goes to the local list.
dpm_resume_next ==
    /\ pc = "resume_loop" /\ ~fatal
    /\ dpm_list # <<>>
    /\ LET d == Head(dpm_list) IN
       /\ dev' = d
       /\ IF NeedsResume(status[d]) /\ ~is_async(d)
          THEN /\ mtx' = "none"
               /\ body' = [body EXCEPT ![d] = NewBody("r_start", FALSE)]
               /\ pc' = "resume_inline"
               /\ UNCHANGED <<status, dpm_list, list>>
          ELSE /\ status' = IF status[d] = DPM_SUSPENDING
                            THEN [status EXCEPT ![d] = DPM_RESUMING]
                            ELSE status
               /\ dpm_list' = Tail(dpm_list)
               /\ list' = Append(list, d)
               /\ UNCHANGED <<mtx, body, pc>>
    /\ UNCHANGED <<nivars, cfgvars, completion, transition_started, pm_transition,
                   async_error, state, idx, error, timer, fatal, wd_fired,
                   obsvars>>

\* Variant: an error of the inline device_resume ends the walk.
dpm_resume_inline_ret_abort ==
    /\ pc = "resume_inline" /\ ~fatal
    /\ body[dev].pc = "r_done"
    /\ mtx' = "ctl"
    /\ error' = body[dev].error
    /\ IF body[dev].error # 0
       THEN /\ dpm_list' = <<>>
            /\ list' = list \o dpm_list
       ELSE IF InSeq(dpm_list, dev)
            THEN /\ dpm_list' = ListDel(dpm_list, dev)
                 /\ list' = Append(list, dev)
            ELSE UNCHANGED <<dpm_list, list>>
    /\ pc' = "resume_loop"
    /\ UNCHANGED <<nivars, cfgvars, status, completion, transition_started,
                   pm_transition, async_error, state, idx, dev, runvars,
                   obsvars>>

\* The inline device_resume returned: the lock is taken again and the device
\* goes to the local list.
dpm_resume_inline_ret ==
    /\ pc = "resume_inline" /\ ~fatal
    /\ body[dev].pc = "r_done"
    /\ mtx' = "ctl"
    /\ error' = body[dev].error
    /\ IF InSeq(dpm_list, dev)
       THEN /\ dpm_list' = ListDel(dpm_list, dev)
            /\ list' = Append(list, dev)
       ELSE UNCHANGED <<dpm_list, list>>
    /\ pc' = "resume_loop"
    /\ UNCHANGED <<nivars, cfgvars, status, completion, transition_started,
                   pm_transition, async_error, state, idx, dev, runvars,
                   obsvars>>

\* The second walk is over: the local list is spliced back.
dpm_resume_splice ==
    /\ pc = "resume_loop" /\ ~fatal
    /\ dpm_list = <<>>
    /\ dpm_list' = SpliceHead(list, dpm_list)
    /\ list' = <<>>
    /\ mtx' = "none"
    /\ pc' = "resume_sync"
    /\ UNCHANGED <<nivars, cfgvars, status, completion, transition_started,
                   pm_transition, async_error, state, idx, dev, error,
                   runvars, obsvars>>

\* Variant: transition_started is left as it is.
dpm_complete_keep ==
    /\ pc = "resume_sync" /\ ~fatal
    /\ AsyncIdle
    /\ mtx' = "ctl"
    /\ list' = <<>>
    /\ dev' = 0
    /\ error' = 0
    /\ body' = [d \in Dev |-> NoBody]
    /\ pc' = "complete_loop"
    /\ cmp' = [todo |-> {d \in Dev : InSeq(dpm_list, d) /\ status[d] # DPM_ON},
               seq |-> <<>>]
    /\ UNCHANGED <<irqs_suspended, prep, noirq, cfgvars, dpm_list, status, completion, transition_started,
                   pm_transition, async_error, state, idx, timer, fatal,
                   wd_fired, obsvars>>

\* async_synchronize_full returned; dpm_resume returns and dpm_complete
\* takes the lock and clears transition_started.
dpm_complete ==
    /\ pc = "resume_sync" /\ ~fatal
    /\ AsyncIdle
    /\ mtx' = "ctl"
    /\ transition_started' = FALSE
    /\ list' = <<>>
    /\ dev' = 0
    /\ error' = 0
    /\ body' = [d \in Dev |-> NoBody]
    /\ pc' = "complete_loop"
    /\ cmp' = [todo |-> {d \in Dev : InSeq(dpm_list, d) /\ status[d] # DPM_ON},
               seq |-> <<>>]
    /\ UNCHANGED <<irqs_suspended, prep, noirq, cfgvars, dpm_list, status, completion, pm_transition,
                   async_error, state, idx, timer, fatal, wd_fired, obsvars>>

(* ------------------------------ device_resume -------------------------- *)

\* The status device_resume writes before it runs the callbacks.
device_resume_begin(d) ==
    /\ status' = [status EXCEPT ![d] = DPM_RESUMING]
    /\ body' = [body EXCEPT ![d].pc = "r_cb", ![d].ncb = @ + 1]

\* device_resume reads the status of the parent and decides on dpm_wait.
device_resume_start(d) ==
    /\ body[d].pc = "r_start" /\ ~fatal
    /\ IF /\ parent[d] # 0
          /\ ParentInTransition(status[parent[d]])
          /\ DpmWaits(parent[d], body[d].async)
       THEN /\ body' = [body EXCEPT ![d].pc = "r_wait"]
            /\ UNCHANGED status
       ELSE device_resume_begin(d)
    /\ UNCHANGED <<nivars, cfgvars, dpm_list, completion, transition_started,
                   pm_transition, async_error, mtx, ctlvars, timer, fatal,
                   wd_fired, obsvars>>

\* wait_for_completion on the parent returned.
device_resume_wait(d) ==
    /\ body[d].pc = "r_wait" /\ ~fatal
    /\ completion[parent[d]]
    /\ device_resume_begin(d)
    /\ UNCHANGED <<nivars, cfgvars, dpm_list, completion, transition_started,
                   pm_transition, async_error, mtx, ctlvars, timer, fatal,
                   wd_fired, obsvars>>

\* Variant: the completion is signalled only when the callbacks succeeded.
device_resume_cb_nosignal(d, e) ==
    /\ body[d].pc = "r_cb" /\ ~fatal
    /\ body' = [body EXCEPT ![d].pc = "r_done", ![d].error = e]
    /\ completion' = [completion EXCEPT ![d] = (e = 0)]
    /\ cbfail' = (cbfail \/ e # 0)
    /\ UNCHANGED <<nivars, cfgvars, dpm_list, status, transition_started,
                   pm_transition, async_error, mtx, ctlvars, timer, fatal,
                   wd_fired, last, prev, off0, ret, order0>>

\* The bus, type and class callbacks returned e; the completion is signalled
\* and device_resume returns (async_resume only reports the error).
device_resume_cb(d, e) ==
    /\ body[d].pc = "r_cb" /\ ~fatal
    /\ body' = [body EXCEPT ![d].pc = "r_done", ![d].error = e]
    /\ completion' = [completion EXCEPT ![d] = TRUE]
    /\ cbfail' = (cbfail \/ e # 0)
    /\ UNCHANGED <<nivars, cfgvars, dpm_list, status, transition_started,
                   pm_transition, async_error, mtx, ctlvars, timer, fatal,
                   wd_fired, last, prev, off0, ret, order0>>

(* ------------------------------ dpm_complete --------------------------- *)

\* Variant: the walk of dpm_complete starts at the head of dpm_list.
dpm_complete_next_head ==
    /\ pc = "complete_loop" /\ ~fatal
    /\ dpm_list # <<>>
    /\ LET d == Head(dpm_list) IN
       /\ dev' = d
       /\ IF NeedsComplete(status[d])
          THEN /\ status' = [status EXCEPT ![d] = DPM_ON]
               /\ mtx' = "none"
               /\ pc' = "complete_cb"
               /\ UNCHANGED <<dpm_list, list>>
          ELSE /\ dpm_list' = ListDel(dpm_list, d)
               /\ list' = <<d>> \o list
               /\ UNCHANGED <<status, mtx, pc>>
    /\ UNCHANGED <<nivars, cfgvars, completion, transition_started, pm_transition,
                   async_error, state, idx, error, runvars, obsvars>>

\* One entry of the walk of dpm_complete, from the tail: a device that is
\* not DPM_ON is set to DPM_ON and the lock dropped for its callbacks.
dpm_complete_next ==
    /\ pc = "complete_loop" /\ ~fatal
    /\ dpm_list # <<>>
    /\ LET d == Last(dpm_list) IN
       /\ dev' = d
       /\ IF NeedsComplete(status[d])
          THEN /\ status' = [status EXCEPT ![d] = DPM_ON]
               /\ mtx' = "none"
               /\ pc' = "complete_cb"
               /\ UNCHANGED <<dpm_list, list>>
          ELSE /\ dpm_list' = ListDel(dpm_list, d)
               /\ list' = <<d>> \o list
               /\ UNCHANGED <<status, mtx, pc>>
    /\ UNCHANGED <<nivars, cfgvars, completion, transition_started, pm_transition,
                   async_error, state, idx, error, runvars, obsvars>>

\* device_complete and pm_runtime_put_sync returned: the lock is taken again
\* and the device goes to the local list.
dpm_complete_cb ==
    /\ pc = "complete_cb" /\ ~fatal
    /\ mtx' = "ctl"
    /\ IF InSeq(dpm_list, dev)
       THEN /\ dpm_list' = ListDel(dpm_list, dev)
            /\ list' = <<dev>> \o list
       ELSE UNCHANGED <<dpm_list, list>>
    /\ pc' = "complete_loop"
    /\ cmp' = [cmp EXCEPT !.seq = Append(@, dev)]
    /\ UNCHANGED <<irqs_suspended, prep, noirq, cfgvars, status, completion, transition_started,
                   pm_transition, async_error, state, idx, dev, error,
                   runvars, obsvars>>

\* The walk is over: the local list is spliced back and dpm_resume_end
\* returns.
dpm_complete_end ==
    /\ pc = "complete_loop" /\ ~fatal
    /\ dpm_list = <<>>
    /\ dpm_list' = SpliceHead(list, dpm_list)
    /\ list' = <<>>
    /\ mtx' = "none"
    /\ pc' = "idle"
    /\ dev' = 0
    /\ off0' = {}
    /\ prep' = NoPrep
    /\ cmp' = NoCmp
    /\ UNCHANGED <<irqs_suspended, noirq, cfgvars, status, completion,
                   transition_started, pm_transition, async_error, state, idx,
                   error, runvars, last, prev, ret, order0, cbfail>>

(* --------------------------- dpm_suspend_noirq ------------------------- *)

\* resume_event: the resume message that undoes a sleep message.
resume_event(sleep_state) ==
    CASE sleep_state = "SUSPEND" -> "RESUME"
      [] sleep_state \in {"FREEZE", "QUIESCE"} -> "RECOVER"
      [] sleep_state = "HIBERNATE" -> "RESTORE"
      [] OTHER -> "ON"

\* Variant: every device is marked, the failing one too.
LateStatus_always(e, old) == DPM_OFF_IRQ

\* The status the loop of dpm_suspend_noirq leaves: DPM_OFF_IRQ unless the
\* callbacks failed.
LateStatus(e, old) == IF e = 0 THEN DPM_OFF_IRQ ELSE old

\* dpm_suspend_noirq is called after dpm_suspend_start returned 0: the
\* interrupts of the devices are suspended and the lock is taken.
dpm_suspend_noirq(st) ==
    /\ pc = "idle" /\ ~fatal
    /\ last = "suspend_start" /\ ret = 0 /\ noirq.op = "none"
    /\ st = state
    /\ irqs_suspended' = TRUE
    /\ noirq' = [NoNoirq EXCEPT !.op = "suspend_noirq", !.off = 1]
    /\ mtx' = "ctl"
    /\ error' = 0
    /\ dev' = 0
    /\ idx' = Len(dpm_list)
    /\ pc' = IF dpm_list = <<>> THEN "suspend_noirq_end" ELSE "suspend_noirq_loop"
    /\ body' = [d \in Dev |-> NoBody]
    /\ UNCHANGED <<cmp, cfgvars, dpm_list, status, completion, transition_started,
                   pm_transition, async_error, state, list, timer, fatal,
                   wd_fired, obsvars, prep>>

\* One entry of the walk from the tail: device_suspend_noirq is entered, with
\* the lock held.
dpm_suspend_noirq_next ==
    /\ pc = "suspend_noirq_loop" /\ ~fatal
    /\ dev' = dpm_list[idx]
    /\ pc' = "suspend_noirq_cb"
    /\ UNCHANGED <<nivars, cfgvars, devvars, state, list, idx, error, runvars,
                   obsvars>>

\* The class, type and bus callbacks returned e: an error ends the walk, else
\* the device is marked DPM_OFF_IRQ and the walk goes on.
dpm_suspend_noirq_cb(e) ==
    /\ pc = "suspend_noirq_cb" /\ ~fatal
    /\ error' = e
    /\ status' = [status EXCEPT ![dev] = LateStatus(e, @)]
    /\ noirq' = [noirq EXCEPT !.fail = IF e # 0 THEN dev ELSE @]
    /\ cbfail' = (cbfail \/ e # 0)
    /\ idx' = idx - 1
    /\ pc' = IF e # 0 \/ idx = 1 THEN "suspend_noirq_end" ELSE "suspend_noirq_loop"
    /\ UNCHANGED <<cmp, cfgvars, dpm_list, completion, transition_started,
                   pm_transition, async_error, mtx, state, list, dev, runvars,
                   last, prev, off0, ret, order0, irqs_suspended, prep>>

\* The walk is over and the lock dropped: on an error dpm_resume_noirq is
\* called with the resume message, else dpm_suspend_noirq returns 0.
dpm_suspend_noirq_end ==
    /\ pc = "suspend_noirq_end" /\ ~fatal
    /\ mtx' = "none"
    /\ pc' = IF error # 0 THEN "suspend_noirq_undo" ELSE "idle"
    /\ dev' = 0
    /\ UNCHANGED <<nivars, cfgvars, dpm_list, status, completion,
                   transition_started, pm_transition, async_error, state, list,
                   idx, error, runvars, obsvars>>

(* ---------------------------- dpm_resume_noirq ------------------------- *)

\* The devices dpm_resume_noirq runs resume_noirq callbacks for.
NeedsEarly(s) == s > DPM_OFF

\* Variant: dpm_resume_noirq leaves transition_started as it is.
dpm_resume_noirq_keep(st) ==
    /\ ~fatal
    /\ \/ /\ pc = "idle"
          /\ noirq.op = "suspend_noirq" /\ noirq.ret = 0 /\ irqs_suspended
          /\ st \in WakeMsgs
          /\ noirq' = [noirq EXCEPT !.op = "resume_noirq",
                          !.late0 = {d \in Dev : InSeq(dpm_list, d) /\ NeedsEarly(status[d])}]
       \/ /\ pc = "suspend_noirq_undo"
          /\ st = resume_event(state)
          /\ noirq' = [noirq EXCEPT
                          !.late0 = {d \in Dev : InSeq(dpm_list, d) /\ NeedsEarly(status[d])}]
    /\ mtx' = "ctl"
    /\ idx' = 1
    /\ dev' = 0
    /\ pc' = IF dpm_list = <<>> THEN "resume_noirq_end" ELSE "resume_noirq_loop"
    /\ UNCHANGED <<cmp, cfgvars, dpm_list, status, completion, pm_transition,
                   transition_started, async_error, state, list, error, runvars,
                   obsvars, irqs_suspended, prep>>

\* dpm_resume_noirq is entered, called by the platform code after
\* dpm_suspend_noirq returned 0 or by dpm_suspend_noirq to undo what it did:
\* the lock is taken and transition_started reset.
dpm_resume_noirq(st) ==
    /\ ~fatal
    /\ \/ /\ pc = "idle"
          /\ noirq.op = "suspend_noirq" /\ noirq.ret = 0 /\ irqs_suspended
          /\ st \in WakeMsgs
          /\ noirq' = [noirq EXCEPT !.op = "resume_noirq",
                          !.late0 = {d \in Dev : InSeq(dpm_list, d) /\ NeedsEarly(status[d])}]
       \/ /\ pc = "suspend_noirq_undo"
          /\ st = resume_event(state)
          /\ noirq' = [noirq EXCEPT
                          !.late0 = {d \in Dev : InSeq(dpm_list, d) /\ NeedsEarly(status[d])}]
    /\ mtx' = "ctl"
    /\ transition_started' = FALSE
    /\ idx' = 1
    /\ dev' = 0
    /\ pc' = IF dpm_list = <<>> THEN "resume_noirq_end" ELSE "resume_noirq_loop"
    /\ UNCHANGED <<cmp, cfgvars, dpm_list, status, completion, pm_transition,
                   async_error, state, list, error, runvars, obsvars,
                   irqs_suspended, prep>>

\* One entry of the walk from the head: a device above DPM_OFF is set to
\* DPM_OFF and device_resume_noirq is entered, with the lock held.
dpm_resume_noirq_next ==
    /\ pc = "resume_noirq_loop" /\ ~fatal
    /\ LET d == dpm_list[idx] IN
       IF NeedsEarly(status[d])
       THEN /\ status' = [status EXCEPT ![d] = DPM_OFF]
            /\ dev' = d
            /\ noirq' = [noirq EXCEPT !.early[d] = @ + 1]
            /\ pc' = "resume_noirq_cb"
            /\ idx' = idx
       ELSE /\ idx' = idx + 1
            /\ pc' = IF idx = Len(dpm_list) THEN "resume_noirq_end"
                                            ELSE "resume_noirq_loop"
            /\ UNCHANGED <<status, dev, noirq>>
    /\ UNCHANGED <<cmp, cfgvars, dpm_list, completion, transition_started,
                   pm_transition, async_error, mtx, state, list, error,
                   runvars, obsvars, irqs_suspended, prep>>

\* Variant: a failed callback ends the walk.
dpm_resume_noirq_cb_stop(e) ==
    /\ pc = "resume_noirq_cb" /\ ~fatal
    /\ cbfail' = (cbfail \/ e # 0)
    /\ noirq' = [noirq EXCEPT !.efail = IF e # 0 THEN @ \cup {dev} ELSE @]
    /\ idx' = idx + 1
    /\ pc' = IF idx = Len(dpm_list) \/ e # 0 THEN "resume_noirq_end"
                                              ELSE "resume_noirq_loop"
    /\ UNCHANGED <<irqs_suspended, prep, cmp, cfgvars, devvars, state, list, dev,
                   error, runvars, last, prev, off0, ret, order0>>

\* The bus, type and class callbacks returned e: an error is reported and the
\* walk goes on.
dpm_resume_noirq_cb(e) ==
    /\ pc = "resume_noirq_cb" /\ ~fatal
    /\ cbfail' = (cbfail \/ e # 0)
    /\ noirq' = [noirq EXCEPT !.efail = IF e # 0 THEN @ \cup {dev} ELSE @]
    /\ idx' = idx + 1
    /\ pc' = IF idx = Len(dpm_list) THEN "resume_noirq_end" ELSE "resume_noirq_loop"
    /\ UNCHANGED <<irqs_suspended, prep, cmp, cfgvars, devvars, state, list, dev,
                   error, runvars, last, prev, off0, ret, order0>>

\* The walk is over: the lock is dropped and the interrupts of the devices
\* are resumed; dpm_resume_noirq returns, and with it a failed
\* dpm_suspend_noirq, which returns its error.
dpm_resume_noirq_end ==
    /\ pc = "resume_noirq_end" /\ ~fatal
    /\ mtx' = "none"
    /\ irqs_suspended' = FALSE
    /\ noirq' = [noirq EXCEPT !.on = @ + 1,
                              !.ret = IF noirq.op = "suspend_noirq" THEN error ELSE @]
    /\ pc' = "idle"
    /\ dev' = 0
    /\ UNCHANGED <<cmp, cfgvars, dpm_list, status, completion, transition_started,
                   pm_transition, async_error, state, list, idx, error,
                   runvars, obsvars, prep>>

(* ------------------------- registry operations ------------------------ *)

\* The driver core registers a device (device_pm_init, then device_pm_add):
\* it goes to the tail.  A device is registered after its parent and before
\* its children.
device_pm_add(d) ==
    /\ pc = "idle" /\ ~fatal
    /\ ~Registered(d)
    /\ parent[d] # 0 => Registered(parent[d])
    /\ \A c \in Dev : parent[c] = d => ~Registered(c)
    /\ status' = [status EXCEPT ![d] = DPM_ON]
    /\ completion' = [completion EXCEPT ![d] = TRUE]
    /\ dpm_list' = Append(dpm_list, d)
    /\ UNCHANGED <<nivars, cfgvars, transition_started, pm_transition, async_error,
                   mtx, ctlvars, runvars, obsvars>>

\* The driver core unregisters a device, at any time: its completion is
\* signalled and, once the lock is free, it is taken off the list it is on.
\* Children are unregistered before their parent.
device_pm_remove(d) ==
    /\ mtx = "none" /\ ~fatal
    /\ Registered(d)
    /\ \A c \in Dev : parent[c] = d => ~Registered(c)
    /\ completion' = [completion EXCEPT ![d] = TRUE]
    /\ dpm_list' = ListDel(dpm_list, d)
    /\ list' = ListDel(list, d)
    /\ UNCHANGED <<nivars, cfgvars, status, transition_started, pm_transition,
                   async_error, mtx, pc, state, idx, dev, error, runvars,
                   obsvars>>

device_pm_move_before(a, b) ==
    /\ pc = "idle" /\ ~fatal
    /\ a # b /\ Registered(a) /\ Registered(b)
    /\ dpm_list' = MoveBefore(dpm_list, a, b)
    /\ UNCHANGED <<nivars, cfgvars, status, completion, transition_started,
                   pm_transition, async_error, mtx, ctlvars, runvars, obsvars>>

device_pm_move_after(a, b) ==
    /\ pc = "idle" /\ ~fatal
    /\ a # b /\ Registered(a) /\ Registered(b)
    /\ dpm_list' = MoveAfter(dpm_list, a, b)
    /\ UNCHANGED <<nivars, cfgvars, status, completion, transition_started,
                   pm_transition, async_error, mtx, ctlvars, runvars, obsvars>>

device_pm_move_last(a) ==
    /\ pc = "idle" /\ ~fatal
    /\ Registered(a)
    /\ dpm_list' = Append(ListDel(dpm_list, a), a)
    /\ UNCHANGED <<nivars, cfgvars, status, completion, transition_started,
                   pm_transition, async_error, mtx, ctlvars, runvars, obsvars>>

(* ---------------------------- specification ---------------------------- *)

Next ==
    \/ \E st \in SleepMsgs : dpm_suspend_start(st)
    \/ dpm_prepare_next
    \/ \E w \in BOOLEAN, r \in {0, 0 - EAGAIN, DevErr(dev)} : dpm_prepare_cb(w, r)
    \/ dpm_prepare_end
    \/ dpm_suspend_start_fail
    \/ dpm_suspend
    \/ dpm_suspend_next
    \/ dpm_suspend_inline_ret
    \/ dpm_suspend_ret
    \/ dpm_suspend_end
    \/ dpm_suspend_sync
    \/ \E d \in Dev : device_suspend_wait(d)
    \/ \E d \in Dev : device_suspend_arm(d)
    \/ \E d \in Dev : \E e \in {0, DevErr(d)} : device_suspend_cb(d, e)
    \/ \E d \in Dev : device_suspend_hang(d)
    \/ \E d \in Dev : device_suspend_end(d)
    \/ \E d \in Dev : async_suspend(d)
    \/ \E d \in Dev : dpm_drv_timeout(d)
    \/ \E st \in WakeMsgs : dpm_resume_end(st)
    \/ dpm_resume_scan
    \/ dpm_resume_next
    \/ dpm_resume_inline_ret
    \/ dpm_resume_splice
    \/ dpm_complete
    \/ \E d \in Dev : device_resume_start(d)
    \/ \E d \in Dev : device_resume_wait(d)
    \/ \E d \in Dev : \E e \in {0, DevErr(d)} : device_resume_cb(d, e)
    \/ dpm_complete_next
    \/ dpm_complete_cb
    \/ dpm_complete_end
    \/ \E st \in SleepMsgs : dpm_suspend_noirq(st)
    \/ dpm_suspend_noirq_next
    \/ \E e \in {0, DevErr(dev)} : dpm_suspend_noirq_cb(e)
    \/ dpm_suspend_noirq_end
    \/ \E st \in WakeMsgs : dpm_resume_noirq(st)
    \/ dpm_resume_noirq_next
    \/ \E e \in {0, DevErr(dev)} : dpm_resume_noirq_cb(e)
    \/ dpm_resume_noirq_end

\* The transitions of the system over a registry nobody changes.
Spec == Init /\ [][Next]_vars

\* The watchdog timer is served by the timer interrupt: a pending timer
\* whose deadline has passed does run its handler.
FairSpec == Spec /\ WF_vars(\E d \in Dev : dpm_drv_timeout(d))

\* The same with the driver core registering, unregistering and moving
\* devices between two public operations.
NextReg ==
    \/ Next
    \/ \E d \in Dev : device_pm_add(d)
    \/ \E d \in Dev : device_pm_remove(d)
    \/ \E a \in Dev, b \in Dev : device_pm_move_before(a, b)
    \/ \E a \in Dev, b \in Dev : device_pm_move_after(a, b)
    \/ \E a \in Dev : device_pm_move_last(a)

\* One machine: device 2 is the child of device 1, the others have no
\* parent; async is enabled and the drivers of all devices but device 3 have
\* opted in.
InitReg ==
    /\ Init
    /\ parent = [d \in Dev |-> IF d = 2 THEN 1 ELSE 0]
    /\ power_async_suspend = [d \in Dev |-> d # 3]
    /\ pm_async_enabled
    /\ ~pm_trace

SpecReg == InitReg /\ [][NextReg]_vars

\* The same machine with pm_trace enabled, and the driver core moving devices
\* between two public operations.
InitTrace ==
    /\ Init
    /\ parent = [d \in Dev |-> IF d = 2 THEN 1 ELSE 0]
    /\ pm_async_enabled
    /\ pm_trace

NextMove ==
    \/ Next
    \/ \E a \in Dev, b \in Dev : device_pm_move_before(a, b)
    \/ \E a \in Dev, b \in Dev : device_pm_move_after(a, b)
    \/ \E a \in Dev : device_pm_move_last(a)

SpecMove == InitTrace /\ [][NextMove]_vars

(* ------------------------- the tiers of one device ---------------------- *)

\* Variant: resume walks the tiers as suspend does.
TierNamesResume_same == TierNames

\* The order in which device_resume walks the tiers.
TierNamesResume == <<"bus", "type", "class">>

\* The callback a tier contributes: the one in ->pm when ->pm is set (none
\* when that pointer is NULL: dpm_run_callback returns 0), else the legacy
\* one, which the type tier does not have.
TierCallback(t, x) ==
    IF ~x.present THEN "none"
    ELSE IF x.pm THEN (IF x.cb THEN "pm" ELSE "none")
    ELSE IF x.legacy /\ t # "type" THEN "legacy"
    ELSE "none"

\* What a failing callback of tier t returns.
TierErr(t) == DevErr(CHOOSE i \in 1..3 : TierNames[i] = t)

\* The walk over the tiers from position i on: a callback that returns
\* non-zero ends it (goto End).
RECURSIVE RunTiers(_, _, _, _, _)
RunTiers(order, i, drv, res, calls) ==
    IF i > Len(order) THEN [calls |-> calls, error |-> 0]
    ELSE LET t == order[i]
             k == TierCallback(t, drv[t])
             e == IF k = "none" THEN 0 ELSE res[t]
             c == IF k = "none" THEN calls ELSE Append(calls, [tier |-> t, form |-> k])
         IN  IF e # 0 THEN [calls |-> c, error |-> e]
             ELSE RunTiers(order, i + 1, drv, res, c)

\* The callbacks part of __device_suspend for a prepared device, the
\* callbacks returning res: the status is written when no tier failed.
device_suspend_tiers(res) ==
    /\ tiers.op = "none"
    /\ LET out == RunTiers(TierNames, 1, tiers.drv, res, <<>>) IN
       tiers' = [tiers EXCEPT !.op = "suspend", !.res = res,
                              !.calls = out.calls, !.error = out.error,
                              !.status = SuspendStatus(out.error, @)]
    /\ UNCHANGED <<parent, power_async_suspend, pm_async_enabled, pm_trace,
                   devvars, ctlvars, runvars, obsvars, nivars>>

\* The callbacks part of device_resume for a suspended device: the status is
\* written first.
device_resume_tiers(res) ==
    /\ tiers.op = "suspend" /\ NeedsResume(tiers.status)
    /\ LET out == RunTiers(TierNamesResume, 1, tiers.drv, res, <<>>) IN
       tiers' = [tiers EXCEPT !.op = "resume", !.res = res,
                              !.calls = out.calls, !.error = out.error,
                              !.status = DPM_RESUMING]
    /\ UNCHANGED <<parent, power_async_suspend, pm_async_enabled, pm_trace,
                   devvars, ctlvars, runvars, obsvars, nivars>>

\* The results the callbacks of the three tiers may return.
TierResults ==
    {[t \in {"class", "type", "bus"} |-> IF t \in s THEN TierErr(t) ELSE 0] :
        s \in SUBSET {"class", "type", "bus"}}

\* One prepared device with any class, type and bus, on an idle machine.
InitTiers ==
    /\ InitDevices
    /\ parent = [d \in Dev |-> 0]
    /\ power_async_suspend = [d \in Dev |-> FALSE]
    /\ ~pm_async_enabled
    /\ ~pm_trace
    /\ tiers \in {[NoTiers EXCEPT !.drv = x] : x \in [{"class", "type", "bus"} -> TierDesc]}

NextTiers ==
    \/ \E r \in TierResults : device_suspend_tiers(r)
    \/ \E r \in TierResults : device_resume_tiers(r)

SpecTiers == InitTiers /\ [][NextTiers]_vars

TypeOK ==
    /\ pc \in {"idle", "prepare_loop", "prepare_cb", "prepare_end", "prepared",
               "suspend_loop", "suspend_inline", "suspend_ret", "suspend_end",
               "suspend_sync", "resume_scan", "resume_loop", "resume_inline",
               "resume_sync", "complete_loop", "complete_cb",
               "suspend_noirq_loop", "suspend_noirq_cb", "suspend_noirq_end",
               "suspend_noirq_undo", "resume_noirq_loop", "resume_noirq_cb",
               "resume_noirq_end"}
    /\ \A d \in Dev : status[d] \in DPM_ON..DPM_OFF_IRQ
    /\ mtx \in {"none", "ctl"}

(* ------------------------------ properties ----------------------------- *)

\* The public operation op has returned and no other was called since.
Returned(op) == pc = "idle" /\ last = op /\ noirq.op = "none"

AllOn == \A d \in Dev : Registered(d) => status[d] = DPM_ON

\* The callbacks of the body of d were entered in the suspend phase.
SuspendStarted(d) ==
    body[d].ncb > 0 /\ body[d].pc \in {"s_cb", "s_hung", "s_end", "s_report", "s_done"}

\* __device_suspend has returned for d.
SuspendReturned(d) == body[d].pc \in {"s_report", "s_done"}

\* The suspend callbacks of d ran and all returned 0.
SuspendOk(d) ==
    body[d].ncb > 0 /\ body[d].error = 0 /\ body[d].pc \in {"s_end", "s_report", "s_done"}

\* The callbacks of the body of d were entered in the resume phase.
ResumeStarted(d) == body[d].ncb > 0 /\ body[d].pc \in {"r_cb", "r_done"}

\* The devices in the order dpm_suspend handles them: from the tail of the
\* list dpm_suspend_start was called with.
SuspendOrder == [i \in 1..Len(order0) |-> order0[Len(order0) + 1 - i]]

\* The K-th device failed its suspend after devices 1..K-1 suspended.
FailedAt(K) ==
    /\ Returned("suspend_start") /\ ret # 0
    /\ K \in 1..Len(SuspendOrder)
    /\ body[SuspendOrder[K]].error # 0
    /\ \A j \in 1..(K - 1) : SuspendOk(SuspendOrder[j])

\* C1: when every callback succeeds, dpm_suspend_start returning 0 followed
\* by dpm_resume_end leaves every registered device at DPM_ON.
C1_RoundTrip ==
    (Returned("resume_end") /\ prev = "suspend_start" /\ ret = 0 /\ ~cbfail)
        => AllOn

C1_Witness ==
    /\ Returned("resume_end") /\ prev = "suspend_start" /\ ret = 0 /\ ~cbfail
    /\ Len(dpm_list) = NDev
    /\ AllOn

C3_SuspendOrder ==
    \A c \in Dev : parent[c] # 0 =>
        LET p == parent[c] IN
        /\ SuspendStarted(p) => (SuspendReturned(c) /\ completion[c])
        /\ ~(body[p].pc \in {"s_cb", "s_hung"} /\ body[c].pc \in {"s_cb", "s_hung"})

C3_Witness ==
    \E c \in Dev :
        /\ parent[c] # 0
        /\ body[parent[c]].pc = "s_cb"
        /\ body[parent[c]].async /\ body[c].async
        /\ SuspendReturned(c)

\* C4: in the resume phase the callbacks of a device that was suspended,
\* with a parent that was suspended, start only after the parent is at
\* DPM_RESUMING, device_resume has returned for the parent and the parent's
\* completion is signalled, whatever the dispatch of the two.
C4_ResumeOrder ==
    \A c \in Dev : (parent[c] # 0 /\ c \in off0 /\ parent[c] \in off0) =>
        LET p == parent[c] IN
        ResumeStarted(c) =>
            /\ status[p] = DPM_RESUMING
            /\ body[p].pc = "r_done"
            /\ completion[p]

C4_Witness ==
    \E c \in Dev :
        /\ parent[c] # 0 /\ c \in off0 /\ parent[c] \in off0
        /\ body[c].pc = "r_cb"
        /\ body[c].async /\ body[parent[c]].async

\* The machine of the scenario: A = 1, B = 2 is the child of A, C = 3 has
\* no parent.
Scenario == parent = [d \in Dev |-> IF d = 2 THEN 1 ELSE 0]

\* C5 as claimed: in the suspend phase the callbacks of a device never start
\* before its parent is at DPM_OFF or later.
C5_ParentFirst_Claimed ==
    \A c \in Dev : (parent[c] # 0 /\ SuspendStarted(c)) => status[parent[c]] >= DPM_OFF

\* C5 as amended: in the suspend phase the callbacks of a parent never
\* start before each child has left its suspend callbacks, at DPM_OFF when
\* they succeeded; in the scenario the callbacks of A start only after the
\* ones of B have returned.
C5_ChildFirst ==
    /\ \A c \in Dev : (parent[c] # 0 /\ SuspendStarted(parent[c])) =>
          /\ body[c].pc \in {"s_end", "s_report", "s_done"}
          /\ SuspendOk(c) => status[c] = DPM_OFF
    /\ (Scenario /\ SuspendStarted(1)) => body[2].pc \in {"s_end", "s_report", "s_done"}

C5_Witness ==
    /\ Scenario
    /\ body[1].pc = "s_cb"
    /\ status[2] = DPM_OFF /\ status[1] = DPM_SUSPENDING

\* C6: dpm_suspend_start returns 0 exactly when every registered device is
\* at DPM_OFF at the return, and a non-zero result of any suspend callback,
\* inline or async, makes it return non-zero.
C6_NoErrorSwallowed ==
    Returned("suspend_start") =>
        /\ (ret = 0) <=> (\A d \in Dev : Registered(d) => status[d] = DPM_OFF)
        /\ \A d \in Dev : body[d].error # 0 => ret # 0

C6_Witness ==
    /\ Returned("suspend_start")
    /\ ret # 0
    /\ \E d \in Dev : body[d].async /\ body[d].error # 0
    /\ \A d \in Dev : ~body[d].async => body[d].error = 0

\* C7: after dpm_suspend_start returned, with 0 or with any error, the
\* following dpm_resume_end leaves every registered device at DPM_ON and
\* transition_started false.
C7_Recovery ==
    (Returned("resume_end") /\ prev = "suspend_start") =>
        (AllOn /\ ~transition_started)

C7_Witness ==
    /\ Returned("resume_end") /\ prev = "suspend_start"
    /\ ret # 0
    /\ AllOn /\ ~transition_started

\* A dpm_resume_end called right after a dpm_resume_end is running.
SecondResume == pc # "idle" /\ last = "resume_end" /\ prev = "resume_end"

\* C8: a dpm_resume_end called right after a dpm_resume_end runs no body and
\* no completion callback, re-arms no completion, leaves every status at
\* DPM_ON and returns with dpm_list in the order it found.
C8_Idempotent ==
    /\ SecondResume =>
          /\ \A d \in Dev : body[d].pc = "none" /\ completion[d]
          /\ AllOn
          /\ pc \notin {"resume_inline", "complete_cb"}
    /\ (Returned("resume_end") /\ prev = "resume_end") =>
          (dpm_list = order0 /\ AllOn /\ \A d \in Dev : completion[d])

C8_Witness ==
    /\ Returned("resume_end") /\ prev = "resume_end"
    /\ Len(dpm_list) = NDev
    /\ dpm_list = order0

\* Every registered device is behind its registered parent.
DepthFirst(l) ==
    \A i \in 1..Len(l) :
        (parent[l[i]] # 0 /\ InSeq(l, parent[l[i]])) => PosIn(l, parent[l[i]]) < i

\* C9: at every moment between two public operations every device on
\* dpm_list is behind its parent.
C9_DepthFirst == pc = "idle" => DepthFirst(dpm_list)

\* C10: a suspend callback that never returns leads to the watchdog handler
\* and BUG(); the handler runs once, and after it nothing runs any more.
C10_Watchdog ==
    /\ \A d \in Dev : (body[d].pc = "s_hung") ~> fatal
    /\ [](wd_fired <= 1 /\ (fatal <=> wd_fired = 1))
    /\ [][fatal => UNCHANGED <<devvars, ctlvars, body>>]_vars

C10_Witness ==
    /\ fatal /\ wd_fired = 1
    /\ \E d \in Dev : body[d].pc = "s_hung" /\ timer[d]

\* The devices behind d in the list dpm_suspend_start was called with.
After0(d) == {order0[i] : i \in (PosIn(order0, d) + 1)..Len(order0)}

\* The running or last dpm_prepare was ended by a failure.
PrepareFailed == last = "suspend_start" /\ prep.fail # 0

\* C11: a failure of prepare other than -EAGAIN ends dpm_prepare at that
\* device, left at DPM_ON; the devices behind it are not prepared and stay at
\* DPM_ON; dpm_suspend_start then returns that error and no __device_suspend
\* is started for any device.
C11_PrepareAbort ==
    /\ [](PrepareFailed =>
            /\ pc \in {"prepare_end", "prepared", "idle"}
            /\ error # 0 /\ error # 0 - EAGAIN
            /\ pc = "idle" => ret = error
            /\ \A d \in Dev : body[d].pc = "none"
            /\ status[prep.fail] = DPM_ON
            /\ \A d \in After0(prep.fail) : prep.n[d] = 0 /\ status[d] = DPM_ON)
    /\ [][(PrepareFailed /\ pc = "prepared") => (pc' = "idle" /\ ret' = error)]_vars

C11_Witness ==
    /\ Returned("suspend_start") /\ Len(order0) = NDev
    /\ prep.fail = order0[2] /\ prep.wake = 0
    /\ ret = DevErr(order0[2])
    /\ status[order0[1]] = DPM_SUSPENDING
    /\ prep.n[order0[3]] = 0

\* dpm_resume is running, or waiting for the tasks of the pool.
InResume == last = "resume_end" /\
            pc \in {"resume_scan", "resume_loop", "resume_inline", "resume_sync"}

\* dpm_resume has walked the list and every task of the pool has finished.
ResumeDone == last = "resume_end" /\ pc = "resume_sync" /\ AsyncIdle

\* C12: in dpm_resume the resume callbacks of a device are entered once when
\* the device was at DPM_OFF or above when the phase started and never when
\* it was below; a device that was only prepared goes to DPM_RESUMING; all
\* that whatever the resume callbacks of the other devices return.
C12_BestEffort ==
    /\ InResume =>
          \A d \in Dev : /\ body[d].ncb <= 1
                          /\ d \notin off0 => body[d].pc = "none"
    /\ ResumeDone =>
          \A d \in Dev : Registered(d) =>
              IF d \in off0
              THEN body[d].pc = "r_done" /\ body[d].ncb = 1 /\ status[d] = DPM_RESUMING
              ELSE status[d] \in {DPM_ON, DPM_RESUMING}

C12_Witness ==
    /\ ResumeDone
    /\ \E a \in off0 : \E b \in off0 : \E c \in Dev \ off0 :
          /\ PosIn(dpm_list, a) < PosIn(dpm_list, b)
          /\ ~body[a].async /\ body[a].error # 0
          /\ ~body[b].async /\ body[b].ncb = 1
          /\ status[c] = DPM_RESUMING

\* dpm_suspend_noirq has returned an error.
LateFailed == pc = "idle" /\ noirq.op = "suspend_noirq" /\ noirq.fail # 0

\* C13: when a suspend_noirq callback fails, dpm_suspend_noirq returns that
\* error only after dpm_resume_noirq ran: at the return no device is at
\* DPM_OFF_IRQ, the resume_noirq callbacks were entered once for every device
\* that had reached DPM_OFF_IRQ (the ones behind the failing device) and for
\* no other, not for the failing one, and the interrupts were suspended once
\* and resumed once.
C13_LateRollback ==
    /\ (noirq.op = "suspend_noirq" /\ noirq.fail # 0 /\ pc # "idle") =>
          /\ pc \in {"suspend_noirq_end", "suspend_noirq_undo", "resume_noirq_loop",
                      "resume_noirq_cb", "resume_noirq_end"}
          /\ irqs_suspended /\ noirq.on = 0
    /\ LateFailed =>
          /\ noirq.ret = DevErr(noirq.fail)
          /\ \A d \in Dev : Registered(d) => status[d] = DPM_OFF
          /\ noirq.late0 = {dpm_list[i] : i \in (PosIn(dpm_list, noirq.fail) + 1)..Len(dpm_list)}
          /\ \A d \in Dev : noirq.early[d] = IF d \in noirq.late0 THEN 1 ELSE 0
          /\ noirq.early[noirq.fail] = 0
          /\ ~irqs_suspended /\ noirq.off = 1 /\ noirq.on = 1

C13_Witness ==
    /\ LateFailed /\ Len(dpm_list) = NDev
    /\ noirq.fail = dpm_list[1]
    /\ noirq.late0 = {dpm_list[2], dpm_list[3]}
    /\ noirq.early[dpm_list[2]] = 1 /\ noirq.early[dpm_list[3]] = 1
    /\ noirq.on = 1

\* The suspend callbacks, the resume callbacks of d are running.
InSuspendCb(d) == body[d].pc \in {"s_cb", "s_hung"}

InResumeCb(d) == body[d].pc = "r_cb"

Related(a, b) == parent[a] = b \/ parent[b] = a

\* C15: the callbacks of two devices run at the same time only when the two
\* are not parent and child and one of them at least was sent to the async
\* pool; for two such devices that both pass the test of the phase an overlap
\* does happen, in the suspend phase and in the resume phase.
C15_Overlap ==
    \A a \in Dev : \A b \in Dev \ {a} :
        ((InSuspendCb(a) /\ InSuspendCb(b)) \/ (InResumeCb(a) /\ InResumeCb(b))) =>
            /\ ~Related(a, b)
            /\ body[a].async \/ body[b].async

C15_Witness ==
    \E a \in Dev : \E b \in Dev \ {a} :
        /\ ~Related(a, b) /\ is_async(a) /\ is_async(b)
        /\ body[a].pc = "s_cb" /\ body[b].pc = "s_cb"
        /\ body[a].async /\ body[b].async

\* The same in the resume phase.
C15_WitnessResume ==
    \E a \in Dev : \E b \in Dev \ {a} :
        /\ ~Related(a, b) /\ is_async(a) /\ is_async(b)
        /\ InResumeCb(a) /\ InResumeCb(b)
        /\ body[a].async /\ body[b].async

\* A __device_suspend or device_resume of d is running: the completion of d
\* was re-armed and is not signalled yet.
InFlight(d) ==
    body[d].pc \in {"s_wait", "s_cb", "s_hung", "s_end", "r_start", "r_wait", "r_cb"}

\* C14: device_pm_remove takes a device off the list only when the completion
\* of the device is signalled already and no callback of the device for the
\* running phase is in flight.
C14_RemoveWaits ==
    [][\A d \in Dev :
          (Registered(d) /\ ~(InSeq(dpm_list', d) \/ InSeq(list', d))) =>
              (completion[d] /\ ~InFlight(d))]_vars

\* C16: a device whose prepare returned -EAGAIN is skipped: within one
\* dpm_prepare the loop handles no device a second time.
C16_RetrySkipped ==
    last = "suspend_start" => \A d \in Dev : prep.n[d] <= 1

\* A device requested a wake-up in the running or last dpm_prepare.
WakeupSeen == last = "suspend_start" /\ prep.wake # 0

\* C17 as claimed: a wake-up requested by a device during dpm_prepare leaves
\* the device at DPM_ON and does not make dpm_prepare fail.
C17_WakeupSkips_Claimed ==
    WakeupSeen => (prep.fail # prep.wake /\ error # 0 - EBUSY)

\* C17 as amended: a wake-up requested by a device during dpm_prepare leaves
\* the device at DPM_ON and ends dpm_prepare with -EBUSY: the devices behind
\* it are not prepared, no device is suspended and dpm_suspend_start returns
\* -EBUSY.
C17_WakeupAborts ==
    WakeupSeen =>
        /\ prep.fail = prep.wake
        /\ error = 0 - EBUSY
        /\ status[prep.wake] = DPM_ON
        /\ pc \in {"prepare_end", "prepared", "idle"}
        /\ pc = "idle" => ret = 0 - EBUSY
        /\ \A d \in Dev : body[d].pc = "none"
        /\ \A d \in After0(prep.wake) : prep.n[d] = 0 /\ status[d] = DPM_ON

C17_Witness ==
    /\ Returned("suspend_start") /\ Len(order0) = NDev
    /\ prep.wake = order0[2]
    /\ ret = 0 - EBUSY
    /\ status[order0[1]] = DPM_SUSPENDING /\ status[order0[3]] = DPM_ON

\* dpm_suspend is running.
InSuspend == pc \in {"suspend_loop", "suspend_inline", "suspend_ret",
                     "suspend_end", "suspend_sync"}

\* C18: within one dpm_suspend the first error written to async_error stays:
\* no later failure of an async task replaces it.
C18_FirstWins ==
    [][(InSuspend /\ async_error # 0) => async_error' = async_error]_vars

\* C19: a body runs on the async pool only for a device that passes
\* is_async: with pm_trace set every body runs inline, in dpm_suspend and in
\* dpm_resume.
C19_TraceInline ==
    \A d \in Dev : body[d].async => is_async(d)

\* C20: the controller does not hold dpm_list_mtx while it is inside the
\* callbacks of a device or blocked for a completion or for the async pool,
\* in the six phases.
C20_LockFree ==
    pc \in {"prepare_cb", "suspend_inline", "suspend_sync", "suspend_noirq_cb",
            "resume_noirq_cb", "resume_inline", "resume_sync", "complete_cb"}
        => mtx = "none"

\* C21: a step that writes dpm_list, the local list of a phase or the status
\* of a device is made with dpm_list_mtx held: by the controller, which holds
\* it before or takes it in the step.
C21_LockedWrites ==
    [][(status' # status \/ dpm_list' # dpm_list \/ list' # list) =>
          (mtx = "ctl" \/ mtx' = "ctl")]_vars

\* C22: in the suspend phase a device at DPM_OFF has every child at DPM_OFF.
C22_ParentAfterChild ==
    InSuspend =>
        \A c \in Dev : (parent[c] # 0 /\ status[parent[c]] = DPM_OFF) => status[c] = DPM_OFF

\* C23: while a public operation runs and no callback hangs, some task can
\* take a step: the controller and the tasks of the pool are never all
\* blocked on completions nobody will signal.
C23_NoDeadlock ==
    (pc # "idle" /\ ~fatal) => ENABLED Next

\* The body of d for the current phase runs: it has not signalled yet.
BodyRuns(d) == body[d].pc \in {"s_wait", "s_cb", "s_hung", "s_end",
                               "r_start", "r_wait", "r_cb"}

\* The body of d for the current phase has returned.
BodyReturned(d) == body[d].pc \in {"s_report", "s_done", "r_done"}

\* C24: the completion of a device is signalled before the first operation,
\* is unsignalled while the body of a registered device runs in the suspend or
\* the resume phase, is signalled once that body returned or the device was
\* removed, and every completion is signalled whenever dpm_suspend_start or
\* dpm_resume_end has returned.
C24_Completion ==
    /\ [](last = "none" => \A d \in Dev : completion[d])
    /\ [](\A d \in Dev : (BodyRuns(d) /\ Registered(d)) => ~completion[d])
    /\ [](\A d \in Dev : (BodyReturned(d) /\ (InSuspend \/ pc = "resume_inline"))
                            => completion[d])
    /\ []((Returned("suspend_start") \/ Returned("resume_end"))
             => \A d \in Dev : completion[d])
    /\ [][\A d \in Dev : (Registered(d) /\ ~Registered(d)') => completion'[d]]_vars

\* dpm_suspend_start returned an error and the body of some device skipped
\* its callbacks, every completion being signalled.
C24_Witness ==
    /\ Returned("suspend_start") /\ ret # 0
    /\ \E d \in Dev : body[d].pc = "s_done" /\ body[d].ncb = 0
    /\ \A d \in Dev : completion[d]

\* The controller is inside dpm_resume.
InResumeLoop == pc \in {"resume_scan", "resume_loop", "resume_inline", "resume_sync"}

\* __device_suspend or async_suspend of d has not returned yet.
SuspendTask(d) == body[d].pc \in {"s_wait", "s_cb", "s_hung", "s_end", "s_report"}

\* device_resume of d has not returned yet.
ResumeTask(d) == body[d].pc \in {"r_start", "r_wait", "r_cb"}

\* C25: a suspend body runs only while the controller is inside dpm_suspend
\* and a resume body only while it is inside dpm_resume; at the step by which
\* either phase returns every dispatched task has finished, also after a
\* failure ended the suspend walk early.
C25_PhaseBarrier ==
    /\ [](\A d \in Dev : SuspendTask(d) => InSuspend)
    /\ [](\A d \in Dev : ResumeTask(d) => InResumeLoop)
    /\ [][(InSuspend /\ ~InSuspend') => \A d \in Dev : ~SuspendTask(d)]_vars
    /\ [][(InResumeLoop /\ ~InResumeLoop') => \A d \in Dev : ~ResumeTask(d)]_vars

\* dpm_suspend_start returned the error of an inline device after the walk
\* was cut short, with the task of an async device finished.
C25_Witness ==
    /\ Returned("suspend_start") /\ ret # 0
    /\ \E d \in Dev : ~body[d].async /\ body[d].pc = "s_done" /\ body[d].error = ret
    /\ \E d \in Dev : body[d].async /\ body[d].pc = "s_done"
    /\ \E d \in Dev : body[d].pc = "none" /\ status[d] = DPM_SUSPENDING

\* C26: the watchdog of a device is pending only between add_timer and
\* del_timer_sync of its running __device_suspend; once that body returned,
\* after success, failure or skipped callbacks, the timer is not pending, and
\* none is pending outside dpm_suspend.
C26_Disarmed ==
    /\ \A d \in Dev : timer[d] => body[d].pc \in {"s_cb", "s_hung", "s_end"}
    /\ \A d \in Dev : body[d].pc \in {"s_report", "s_done"} => ~timer[d]
    /\ (~fatal /\ ~InSuspend) => \A d \in Dev : ~timer[d]

\* Three bodies returned in one dpm_suspend, one after success, one after a
\* failed callback and one that skipped its callbacks, no timer pending.
C26_Witness ==
    /\ \E d \in Dev : body[d].pc = "s_done" /\ body[d].ncb = 1 /\ body[d].error = 0
    /\ \E d \in Dev : body[d].pc = "s_done" /\ body[d].ncb = 1 /\ body[d].error # 0
    /\ \E d \in Dev : body[d].pc = "s_done" /\ body[d].ncb = 0
    /\ \A d \in Dev : ~timer[d]

\* The controller is inside dpm_prepare, dpm_suspend or dpm_suspend_noirq
\* (before its rollback).
BeforeResume == pc \in {"prepare_loop", "prepare_cb", "prepare_end", "prepared",
                        "suspend_loop", "suspend_inline", "suspend_ret",
                        "suspend_end", "suspend_sync", "suspend_noirq_loop",
                        "suspend_noirq_cb", "suspend_noirq_end",
                        "suspend_noirq_undo"}

\* The controller is inside dpm_resume_noirq or dpm_complete.
AfterReset == pc \in {"resume_noirq_loop", "resume_noirq_cb", "resume_noirq_end",
                      "complete_loop", "complete_cb"}

\* C27 as claimed: transition_started is cleared by no step but the entry of
\* dpm_complete.
C27_ClearedAtComplete ==
    [][(transition_started /\ ~transition_started') => pc' = "complete_loop"]_vars

\* C27: transition_started is set at the entry of dpm_prepare only, is true
\* throughout prepare, suspend and suspend_noirq, and is cleared at the entry
\* of dpm_resume_noirq and at the entry of dpm_complete, by no other step; it
\* is false while dpm_resume_noirq and dpm_complete run, and stays false during
\* the dpm_resume that follows a dpm_resume_noirq.
C27_Cleared ==
    /\ [](BeforeResume => transition_started)
    /\ [](AfterReset => ~transition_started)
    /\ [][(~transition_started /\ transition_started') => pc' = "prepare_loop"]_vars
    /\ [][(transition_started /\ ~transition_started') =>
             \/ pc' = "complete_loop"
             \/ /\ pc \in {"idle", "suspend_noirq_undo"}
                /\ pc' \in {"resume_noirq_loop", "resume_noirq_end"}]_vars

\* dpm_resume runs the resume callback of a device after dpm_resume_noirq
\* cleared the flag.
C27_Witness ==
    /\ InResumeLoop /\ ~transition_started
    /\ \E d \in Dev : body[d].pc = "r_cb"

\* The calls of pm_runtime_get_noresume dpm_prepare made for d (counted up to
\* MaxPrep).
Gets(d) == prep.n[d]

\* The calls of pm_runtime_put_sync made for d, by dpm_prepare after a wake-up
\* request and by dpm_complete.
Puts(d) ==
    Len(SelectSeq(cmp.seq, LAMBDA x : x = d)) + (IF prep.wake = d THEN 1 ELSE 0)

\* The walk of dpm_complete is over, in a cycle whose dpm_prepare failed.
CompleteDone == pc = "complete_loop" /\ dpm_list = <<>>

\* C28: when dpm_complete has handled every device after a dpm_prepare that
\* failed, each device has had as many pm_runtime_put_sync as
\* pm_runtime_get_noresume calls.
C28_Paired ==
    (CompleteDone /\ prep.fail # 0) => \A d \in Dev : Gets(d) = Puts(d)

EarlyDone(d) ==
    /\ noirq.early[d] = IF d \in noirq.late0 THEN 1 ELSE 0
    /\ status[d] <= DPM_OFF

\* C30: during the walk of dpm_resume_noirq the devices handled so far are
\* the ones ahead of the cursor in dpm_list, each device that was at
\* DPM_OFF_IRQ set to DPM_OFF with its callbacks run once, whatever earlier
\* callbacks returned, and the interrupts are still off; when it has returned
\* every registered device is handled and resume_device_irqs ran once.
C30_EarlyResume ==
    /\ pc \in {"resume_noirq_loop", "resume_noirq_cb"} =>
          /\ noirq.on = 0 /\ irqs_suspended
          /\ pc = "resume_noirq_cb" => dev = dpm_list[idx]
          /\ \A i \in 1..Len(dpm_list) :
                /\ i < idx => EarlyDone(dpm_list[i])
                /\ i > idx => noirq.early[dpm_list[i]] = 0
    /\ (pc = "idle" /\ noirq.on > 0) =>
          /\ noirq.on = 1 /\ ~irqs_suspended
          /\ \A d \in Dev : InSeq(dpm_list, d) => EarlyDone(d)

\* dpm_resume_noirq returned: the callbacks of one device failed and those
\* of a device behind it in dpm_list ran all the same.
C30_Witness ==
    /\ pc = "idle" /\ noirq.on = 1 /\ ~irqs_suspended
    /\ \E i \in 1..Len(dpm_list) : \E j \in 1..Len(dpm_list) :
          /\ i < j
          /\ dpm_list[i] \in noirq.efail
          /\ noirq.early[dpm_list[j]] = 1

\* The position of tier t in the walk of the body that ran last.
TierPos(t) ==
    LET order == IF tiers.op = "resume" THEN <<"bus", "type", "class">>
                                         ELSE <<"class", "type", "bus">>
    IN  CHOOSE i \in 1..3 : order[i] = t

\* C31: the callbacks a body invoked come in the order class, type, bus for
\* suspend and bus, type, class for resume, at most one per tier, the ->pm
\* one when the tier has ->pm and the legacy one only when it has not; every
\* callback but the last returned 0, so none follows a failure, and the error
\* of the body is what the last one returned; after suspend the status is
\* DPM_OFF exactly when no tier failed.
C31_TierOrder ==
    LET c == tiers.calls IN
    /\ \A i \in 1..Len(c) : \A j \in 1..Len(c) :
          i < j => TierPos(c[i].tier) < TierPos(c[j].tier)
    /\ \A i \in 1..Len(c) :
          LET x == tiers.drv[c[i].tier] IN
          /\ x.present
          /\ c[i].form = "pm" => x.pm /\ x.cb
          /\ c[i].form = "legacy" => ~x.pm /\ x.legacy /\ c[i].tier # "type"
          /\ i < Len(c) => tiers.res[c[i].tier] = 0
    /\ tiers.error = IF c = <<>> THEN 0 ELSE tiers.res[c[Len(c)].tier]
    /\ tiers.op = "suspend" =>
          /\ (tiers.status = DPM_OFF) = (tiers.error = 0)
          /\ tiers.status \in {DPM_OFF, DPM_SUSPENDING}
          /\ \A t \in {"class", "type", "bus"} :
                (TierCallback(t, tiers.drv[t]) # "none" /\ tiers.error = 0)
                    => \E i \in 1..Len(c) : c[i].tier = t
    /\ tiers.op = "none" => c = <<>>

\* The legacy callback of the class returned 0, the type callback failed and
\* the ->pm callback of the bus was not run.
C31_Witness ==
    /\ tiers.op = "suspend"
    /\ Len(tiers.calls) = 2 /\ tiers.calls[1].form = "legacy"
    /\ tiers.error = TierErr("type")
    /\ TierCallback("bus", tiers.drv["bus"]) = "pm"
    /\ tiers.status = DPM_SUSPENDING

\* A resume body ran its three callbacks, bus first.
C31_WitnessResume ==
    /\ tiers.op = "resume" /\ Len(tiers.calls) = 3
    /\ tiers.calls[1].tier = "bus" /\ tiers.error # 0

\* The controller is between two phases or outside the public operations:
\* the local list of the last phase has been spliced back.
PhaseOver == pc \in {"prepared", "suspend_sync", "resume_sync", "idle"}

\* dpm_list holds the devices it held when the running public operation was
\* called, in the same order.
FrameKept == (PhaseOver /\ last # "none") => dpm_list = order0

\* No body of dpm_suspend or dpm_resume has run the callbacks of its device
\* twice and dpm_complete has completed no device twice.
HandledOnce ==
    /\ \A d \in Dev : body[d].ncb <= 1
    /\ \A i \in 1..Len(cmp.seq) : \A j \in 1..Len(cmp.seq) :
          i # j => cmp.seq[i] # cmp.seq[j]

\* C32: after each of dpm_prepare, dpm_suspend, dpm_resume and dpm_complete
\* dpm_list holds the same devices in the same order as before, also after
\* a failure cut the phase short, and no phase handles a device twice.
C32_FrameOnce ==
    /\ FrameKept
    /\ last = "suspend_start" => \A d \in Dev : prep.n[d] <= 1
    /\ HandledOnce

\* The changes of dev->power.status the life cycle allows: the forward path,
\* with the detour through DPM_OFF_IRQ, and the two unwind edges.
StatusEdges ==
    {<<DPM_ON, DPM_PREPARING>>, <<DPM_PREPARING, DPM_SUSPENDING>>,
     <<DPM_SUSPENDING, DPM_OFF>>, <<DPM_OFF, DPM_OFF_IRQ>>,
     <<DPM_OFF_IRQ, DPM_OFF>>, <<DPM_OFF, DPM_RESUMING>>,
     <<DPM_RESUMING, DPM_ON>>,
     <<DPM_PREPARING, DPM_ON>>, <<DPM_SUSPENDING, DPM_RESUMING>>}

\* C33: with the public operations called in protocol order every change of
\* the status of a device is one of StatusEdges; in particular no device
\* goes from DPM_ON or DPM_PREPARING to DPM_OFF or DPM_OFF_IRQ.
C33_StatusEdges ==
    [][\A d \in Dev : status'[d] # status[d] =>
          <<status[d], status'[d]>> \in StatusEdges]_vars

\* dpm_resume after a failed dpm_suspend: one device was suspended and has
\* been resumed, another was only prepared and has been marked DPM_RESUMING,
\* a third is still at DPM_SUSPENDING.
C33_Witness ==
    /\ InResumeLoop /\ prev = "suspend_start" /\ ret # 0
    /\ \E d \in Dev : status[d] = DPM_RESUMING /\ body[d].pc = "r_done"
    /\ \E d \in Dev : status[d] = DPM_RESUMING /\ body[d].pc = "none"
    /\ \E d \in Dev : status[d] = DPM_SUSPENDING

\* dpm_resume_noirq took a device from DPM_OFF_IRQ back to DPM_OFF.
C33_WitnessLate ==
    /\ pc = "resume_noirq_cb" /\ status[dev] = DPM_OFF
    /\ \E d \in Dev : status[d] = DPM_OFF_IRQ

====
